---- MODULE Spec2Model ----
(***************************************************************************)
(* Model of the bindgen! macro argument parser of bindgen_plugin:          *)
(*   parse_macro_opts    (src/bindgen_plugin/src/parser.rs:10-101)         *)
(*   parse_process_args  (src/bindgen_plugin/src/parser.rs:118-194)        *)
(*   BindgenArgsVisitor  (src/bindgen_plugin/src/parser.rs:204-273)        *)
(*                                                                         *)
(* A Rust &str is modelled as a sequence of characters.  Every character   *)
(* is one byte wide except "E", which stands for a two-byte UTF-8          *)
(* character: parse_process_args mixes character indices (enumerate over   *)
(* chars) with byte offsets (s.len(), s[a..b]), so the width matters.      *)
(***************************************************************************)
EXTENDS Integers, Sequences, FiniteSets, TLC

\* ------------------------------------------------------------------ bounds
\* Longest input string handed to parse_process_args in SpecSplit.
MaxLen == 5
\* Largest number of arguments written in one macro invocation in Spec.
MaxArgs == 2
\* the most directories Clang::find reports in c_search_paths
MaxPaths == 1

\* ------------------------------------------------------------ &str helpers
Chars == {"a", " ", "\"", "'", "\\", "E"}

Width(c) == IF c = "E" THEN 2 ELSE 1

RECURSIVE ByteLen(_)
\* str::len: the length in bytes
ByteLen(str) == IF str = <<>> THEN 0 ELSE Width(Head(str)) + ByteLen(Tail(str))

\* byte offset at which character number k+1 of str starts (k = 0..Len(str))
ByteOff(str, k) == ByteLen(SubSeq(str, 1, k))

\* str::is_char_boundary
IsCharBoundary(str, b) == \E k \in 0..Len(str) : ByteOff(str, k) = b

\* &str[a..b] with byte offsets a, b; panics off a character boundary
SliceOk(str, a, b) == a <= b /\ IsCharBoundary(str, a) /\ IsCharBoundary(str, b)

Slice(str, a, b) ==
    LET ka == CHOOSE k \in 0..Len(str) : ByteOff(str, k) = a
        kb == CHOOSE k \in 0..Len(str) : ByteOff(str, k) = b
    IN  SubSeq(str, ka + 1, kb)

RECURSIVE TrimLeft(_)
TrimLeft(str) ==
    IF str # <<>> /\ Head(str) = " " THEN TrimLeft(Tail(str)) ELSE str

RECURSIVE TrimRight(_)
TrimRight(str) ==
    IF str # <<>> /\ str[Len(str)] = " "
    THEN TrimRight(SubSeq(str, 1, Len(str) - 1)) ELSE str

\* str::trim (the only whitespace of the alphabet is the space)
Trim(str) == TrimRight(TrimLeft(str))

RECURSIVE Replace(_, _, _)
\* str::replace(from, to) for a two-character pattern from = <<'\\', c>> and
\* the one-character replacement to = <<c>>: non-overlapping, left to right
Replace(str, from, to) ==
    IF Len(str) < 2 THEN str
    ELSE IF SubSeq(str, 1, 2) = from
         THEN to \o Replace(SubSeq(str, 3, Len(str)), from, to)
         ELSE <<Head(str)>> \o Replace(Tail(str), from, to)

RECURSIVE Concat(_)
\* [String]::join("")
Concat(ss) == IF ss = <<>> THEN <<>> ELSE Head(ss) \o Concat(Tail(ss))

\* ------------------------------------------------------ parse_process_args
\* The characters the for loop iterates over: s.chars().chain(" ".chars())
LoopChars(str) == str \o <<" ">>

\* The pairs starts.zip(ends) of the positions vector: elements at even
\* (0-based) indices zipped with the elements at odd indices.
Spans(positions) ==
    [k \in 1..(Len(positions) \div 2) |->
        <<positions[2 * k - 1], positions[2 * k]>>]

SpansOk(str, positions) ==
    \A k \in 1..Len(Spans(positions)) :
        SliceOk(str, Spans(positions)[k][1], Spans(positions)[k][2])

JoinSpans(str, positions) ==
    Concat([k \in 1..Len(Spans(positions)) |->
               Slice(str, Spans(positions)[k][1], Spans(positions)[k][2])])

\* lines 176-181: trim, then the four replacements in source order
Unescape(part) ==
    LET p0 == Trim(part)
        p1 == Replace(p0, <<"\\", "\"">>, <<"\"">>)
        p2 == Replace(p1, <<"\\", "'">>, <<"'">>)
        p3 == Replace(p2, <<"\\", " ">>, <<" ">>)
        p4 == Replace(p3, <<"\\", "\\">>, <<"\\">>)
    IN  p4

\* lines 174-183: the token is pushed when the joined spans are non-empty
\* BEFORE trimming
PushPart(parts, part) ==
    IF Len(part) > 0 THEN Append(parts, Unescape(part)) ELSE parts

ScanInit ==
    [i |-> 0, quote_state |-> "InNone", positions |-> <<0>>, last |-> " ",
     parts |-> <<>>, pc |-> "loop"]

\* One iteration of the for loop (lines 124-192) over the trimmed string str,
\* from the scanner state st, at character index st.i.
ScanStep(str, st) ==
    LET i == st.i
        c == LoopChars(str)[i + 1]
        last == st.last
        next == [st EXCEPT !.i = i + 1, !.last = c]
        toggle(q) == [next EXCEPT !.quote_state = q,
                                  !.positions = st.positions \o <<i, i + 1>>]
    IN
    IF last = "\\" /\ c = "\"" THEN next
    ELSE IF last = "\\" /\ c = "'" THEN next
    ELSE IF last = "\\" /\ c = " " /\ i < ByteLen(str) THEN next
    ELSE IF last = "\\" /\ c = "\\" THEN next
    ELSE IF c = "\"" /\ st.quote_state = "InNone" THEN toggle("InDoubleQuotes")
    ELSE IF c = "\"" /\ st.quote_state = "InDoubleQuotes" THEN toggle("InNone")
    ELSE IF c = "'" /\ st.quote_state = "InNone" THEN toggle("InSingleQuotes")
    ELSE IF c = "'" /\ st.quote_state = "InSingleQuotes" THEN toggle("InNone")
    ELSE IF c = " " /\ (st.quote_state = "InNone" \/ i >= ByteLen(str))
    THEN LET pos == Append(st.positions, i)
         IN  IF SpansOk(str, pos)
             THEN [next EXCEPT !.parts = PushPart(st.parts, JoinSpans(str, pos)),
                               !.positions = <<i + 1>>]
             ELSE [next EXCEPT !.pc = "panic"]
    ELSE next

\* line 193: the loop is over, parts is returned
ScanDone(str, st) ==
    st.pc = "panic" \/ st.i = Len(LoopChars(str))

RECURSIVE ScanFrom(_, _)
ScanFrom(str, st) ==
    IF ScanDone(str, st) THEN st ELSE ScanFrom(str, ScanStep(str, st))

\* parse_process_args(s): [panic |-> slicing panicked, parts |-> result]
parse_process_args(str) ==
    LET st == ScanFrom(Trim(str), ScanInit)
    IN  [panic |-> st.pc = "panic", parts |-> st.parts]

\* ------------------------------------------------------------ token stream
\* An Option<String>: <<>> is None, <<n>> is Some(n)
None == <<>>
Some(n) == <<n>>

\* A token (or, for "block", a delimited token tree) of the macro's input:
\*   k = "ident"  an identifier spelled id (true and false are identifiers)
\*   k = "str"    a string literal with the text str
\*   k = "uint"   an unsuffixed or unsigned integer literal (1, 1u32)
\*   k = "int"    a signed-suffixed integer literal (1i64)
\*   k = "float"  a literal of another kind (1.0)
\*   k = "block"  a brace-delimited block expression ({ 1 })
\*   k = "eq", "comma", "eof"
\*   k = "colon", "bang", "open", "close"   : ! ( )
Tok(k, id, str) == [k |-> k, id |-> id, str |-> str]
EqTok == Tok("eq", "", <<>>)
CommaTok == Tok("comma", "", <<>>)
EofTok == Tok("eof", "", <<>>)
Ident(id) == Tok("ident", id, <<>>)
StrLit(str) == Tok("str", "", str)
NilVal == Tok("nil", "", <<>>)
ColonTok == Tok("colon", "", <<>>)
BangTok == Tok("bang", "", <<>>)
OpenTok == Tok("open", "", <<>>)
CloseTok == Tok("close", "", <<>>)

\* what is written, not one token: the name of an argument written `id:`
Label(id) == Tok("label", id, <<>>)
\* what is written, not one token: the invocation id!("str"), an expression
\* that expands to the string literal "str"
MacroCall(id, str) == Tok("mac", id, str)

\* the strings "static", "dynamic", "framework" compared at lines 224-226
StaticStr == <<"s", "t", "a", "t", "i", "c">>
DynamicStr == <<"d", "y", "n", "a", "m", "i", "c">>
FrameworkStr == <<"f", "r", "a", "m", "e", "w", "o", "r", "k">>

\* ------------------------------------------------------ BindgenArgsVisitor
\* bgmacro.rs:22-25: BindgenOptions { builtins: true, ..Default::default() }
DefaultOptions ==
    [builtins |-> TRUE, fail_on_unknown_type |-> FALSE, override_enum_ty |-> <<>>,
     clang_args |-> <<>>, match_pat |-> <<>>, links |-> <<>>]

RECURSIVE Split(_, _)
\* str::split(sep).collect(): the parts between the occurrences of sep
Split(str, sep) ==
    IF \A k \in 1..Len(str) : str[k] # sep THEN <<str>>
    ELSE LET k == CHOOSE j \in 1..Len(str) :
                      str[j] = sep /\ \A h \in 1..(j - 1) : str[h] # sep
         IN  <<SubSeq(str, 1, k - 1)>> \o Split(SubSeq(str, k + 1, Len(str)), sep)

\* LinkKind changed to take every known kind for a dynamic library
LinkKind_AllDynamic(kind) ==
    IF kind \in {StaticStr, DynamicStr, FrameworkStr} THEN "Dynamic" ELSE ""

\* lines 223-228: the link kind named by parts[0]; "" when there is none
LinkKind(kind) ==
    IF kind = StaticStr THEN "Static"
    ELSE IF kind = DynamicStr THEN "Dynamic"
    ELSE IF kind = FrameworkStr THEN "Framework"
    ELSE ""

\* A visit's outcome: the value returned, the visitor after the call, and
\* whether the call panicked.
Visited(ret, opts, seen) ==
    [ret |-> ret, options |-> opts, seen_named |-> seen, panic |-> FALSE]

\* VisitLink changed to push the entry before the kind is checked
VisitLink_PushFirst(opts, seen, val) ==
    LET parts == Split(val, "=")
    IN  IF Len(parts) = 1
        THEN Visited(TRUE, [opts EXCEPT !.links = Append(@, <<parts[1], "Dynamic">>)],
                     seen)
        ELSE IF Len(parts) = 2
        THEN Visited(LinkKind(parts[1]) # "",
                     [opts EXCEPT !.links = Append(@, <<parts[2], LinkKind(parts[1])>>)],
                     seen)
        ELSE Visited(FALSE, opts, seen)

\* lines 217-232: Some("link")
VisitLink(opts, seen, val) ==
    LET parts == Split(val, "=")
    IN  IF Len(parts) = 1
        THEN Visited(TRUE, [opts EXCEPT !.links = Append(@, <<parts[1], "Dynamic">>)],
                     seen)
        ELSE IF Len(parts) = 2 /\ LinkKind(parts[1]) # ""
        THEN Visited(TRUE,
                     [opts EXCEPT !.links = Append(@, <<parts[2], LinkKind(parts[1])>>)],
                     seen)
        ELSE Visited(FALSE, opts, seen)

\* VisitMatch changed to insert at the front of match_pat
VisitMatch_Prepend(opts, seen, val) ==
    Visited(TRUE, [opts EXCEPT !.match_pat = <<val>> \o @], seen)

\* line 233: Some("match")
VisitMatch(opts, seen, val) ==
    Visited(TRUE, [opts EXCEPT !.match_pat = Append(@, val)], seen)

\* line 234: Some("clang_args")
VisitClangArgs(opts, seen, val) ==
    LET r == parse_process_args(val)
    IN  IF r.panic
        THEN [ret |-> FALSE, options |-> opts, seen_named |-> seen, panic |-> TRUE]
        ELSE Visited(TRUE, [opts EXCEPT !.clang_args = @ \o r.parts], seen)

\* line 235: Some("enum_type")
VisitEnumType(opts, seen, val) ==
    Visited(TRUE, [opts EXCEPT !.override_enum_ty = val], seen)

\* StrName changed to default an unnamed string whatever was seen before
StrName_AlwaysDefault(seen, name) ==
    IF name # None THEN name ELSE Some("clang_args")

\* lines 211-215: the name visit_str dispatches on
StrName(seen, name) ==
    IF name # None THEN name
    ELSE IF ~seen THEN Some("clang_args")
    ELSE None

\* lines 210-239
visit_str(opts, seen, name, val) ==
    LET seen1 == IF name # None THEN TRUE ELSE seen
        n == StrName(seen, name)
    IN  IF n = Some("link") THEN VisitLink(opts, seen1, val)
        ELSE IF n = Some("match") THEN VisitMatch(opts, seen1, val)
        ELSE IF n = Some("clang_args") THEN VisitClangArgs(opts, seen1, val)
        ELSE IF n = Some("enum_type") THEN VisitEnumType(opts, seen1, val)
        ELSE Visited(FALSE, opts, seen1)

\* visit_int changed to leave seen_named alone
visit_int_NoFlag(opts, seen, name) == Visited(FALSE, opts, seen)

\* lines 241-246
visit_int(opts, seen, name) ==
    Visited(FALSE, opts, IF name # None THEN TRUE ELSE seen)

\* lines 248-253
visit_uint(opts, seen, name) ==
    Visited(FALSE, opts, IF name # None THEN TRUE ELSE seen)

\* visit_bool changed to store allow_unknown_types without the negation
visit_bool_NoNegation(opts, seen, name, val) ==
    LET seen1 == IF name # None THEN TRUE ELSE seen
    IN  IF name = Some("allow_unknown_types")
        THEN Visited(TRUE, [opts EXCEPT !.fail_on_unknown_type = val], seen1)
        ELSE IF name = Some("builtins")
        THEN Visited(TRUE, [opts EXCEPT !.builtins = val], seen1)
        ELSE Visited(FALSE, opts, seen1)

\* lines 255-265
visit_bool(opts, seen, name, val) ==
    LET seen1 == IF name # None THEN TRUE ELSE seen
    IN  IF name = Some("allow_unknown_types")
        THEN Visited(TRUE, [opts EXCEPT !.fail_on_unknown_type = ~val], seen1)
        ELSE IF name = Some("builtins")
        THEN Visited(TRUE, [opts EXCEPT !.builtins = val], seen1)
        ELSE Visited(FALSE, opts, seen1)

\* lines 267-272
visit_ident(opts, seen, name) ==
    Visited(FALSE, opts, IF name # None THEN TRUE ELSE seen)

\* lines 48-52: an identifier value is a bool when spelled true or false
IdentMethod(id) ==
    IF id \in {"true", "false"} THEN "visit_bool" ELSE "visit_ident"

\* lines 64-73: the visit method of a literal kind ("" for the other kinds)
LitMethod(k) ==
    IF k = "str" THEN "visit_str"
    ELSE IF k = "uint" THEN "visit_uint"
    ELSE IF k = "int" THEN "visit_int"
    ELSE ""

\* the call visit.<method>(as_str(&name), value of tok)
Visit(method, opts, seen, name, tok) ==
    IF method = "visit_str" THEN visit_str(opts, seen, name, tok.str)
    ELSE IF method = "visit_bool" THEN visit_bool(opts, seen, name, tok.id = "true")
    ELSE IF method = "visit_uint" THEN visit_uint(opts, seen, name)
    ELSE IF method = "visit_int" THEN visit_int(opts, seen, name)
    ELSE visit_ident(opts, seen, name)

\* ---------------------------------------------------------------- state
VARIABLES
    s,          \* parse_process_args: the argument s
    scan,       \* parse_process_args: the locals of the loop and its position
    input,      \* the argument list the macro was invoked with (see Items)
    toks,       \* parse_macro_opts: tts, the tokens of the invocation
    pos,        \* parser: index in toks of parser.token (Len(toks)+1 at Eof)
    options,    \* the BindgenOptions being filled in
    seen_named, \* BindgenArgsVisitor.seen_named
    args_good,  \* parse_macro_opts: args_good
    result,     \* "running", or how the call ended: "true", "false", "panic"
    diags,      \* number of cx.span_err calls made so far
    visits,     \* history: the visit_* calls made so far, in order
    iters,      \* history: how many times the body of the loop was entered
    macro       \* bindgen_macro: its position and what it handed to generate

vars == <<s, scan, input, toks, pos, options, seen_named, args_good, result, diags,
          visits, iters, macro>>

RECURSIVE StringsUpTo(_)
StringsUpTo(n) ==
    IF n = 0 THEN {<<>>}
    ELSE LET shorter == StringsUpTo(n - 1)
         IN  shorter \cup {Append(t, c) : t \in {u \in shorter : Len(u) = n - 1},
                                          c \in Chars}

\* ------------------------------------------------- the inputs of the parser
\* One written argument: pre is the token written before an `=` (NilVal when
\* the argument has no `name=` prefix), val the value token (NilVal when the
\* value is missing), sep whether a comma is written after the argument.
Item(pre, val, sep) == [pre |-> pre, val |-> val, sep |-> sep]

LinkStrs ==
    {<<"m">>, StaticStr \o <<"=", "m">>, DynamicStr \o <<"=", "m">>,
     FrameworkStr \o <<"=", "m">>, <<"b", "=", "m">>, <<"m", "=", "m", "=", "m">>}

PlainStrs == {<<"x", " ", "y">>, <<"m">>}

Bools == {Ident("true"), Ident("false")}

Scalars == {Ident("foo"), Tok("uint", "1", <<>>), Tok("int", "1i64", <<>>)}

\* <<pre, val>> of the arguments the model writes
Shapes ==
    \* string values: the link forms, the list and scalar options, wrong names
         ({Ident("link")} \X {StrLit(v) : v \in LinkStrs})
    \cup ({Ident("match"), Ident("clang_args"), NilVal} \X {StrLit(v) : v \in PlainStrs})
    \cup ({Ident("enum_type"), Ident("bogus"), Ident("builtins")} \X {StrLit(<<"m">>)})
    \* boolean values
    \cup ({Ident("allow_unknown_types"), Ident("builtins")} \X Bools)
    \cup ({Ident("bogus"), NilVal} \X {Ident("true")})
    \* identifiers and integers
    \cup ({Ident("bogus"), NilVal} \X Scalars)
    \cup {<<Ident("builtins"), Tok("uint", "1", <<>>)>>}
    \* malformed arguments
    \cup {<<Ident("builtins"), Tok("float", "1.0", <<>>)>>,
          <<NilVal, Tok("block", "{1}", <<>>)>>,
          <<StrLit(<<"m">>), Ident("true")>>,
          <<Ident("builtins"), NilVal>>}

Items == {Item(sh[1], sh[2], sep) : sh \in Shapes, sep \in BOOLEAN}

\* `name=` with nothing after it reads as the prefix of the next argument, so
\* an argument without a value is only written last or before a comma
Extensible(l) ==
    l = <<>> \/ l[Len(l)].val.k # "nil" \/ l[Len(l)].sep

RECURSIVE ItemLists(_)
ItemLists(n) ==
    IF n = 0 THEN {<<>>}
    ELSE LET shorter == ItemLists(n - 1)
         IN  shorter \cup
             {Append(l, it) :
                 l \in {u \in shorter : Len(u) = n - 1 /\ Extensible(u)},
                 it \in Items}

\* arguments in the two further written forms: a name followed by a colon,
\* and a value that is a macro invocation
FormShapes ==
         ({Label("clang_args"), Label("match")} \X {StrLit(v) : v \in PlainStrs})
    \cup {<<Label("builtins"), Ident("false")>>}
    \cup ({Ident("clang_args"), Ident("match"), NilVal}
             \X {MacroCall("concat", v) : v \in PlainStrs})

FormItems == {Item(sh[1], sh[2], sep) : sh \in FormShapes, sep \in BOOLEAN}

\* argument lists of at most n arguments, one of them in a further form
FormLists(n) ==
    {l \in ItemLists(n) \cup
           UNION {{Append(u, f), <<f>> \o u} :
                     u \in {w \in ItemLists(n - 1) : Extensible(w)},
                     f \in FormItems} :
        \E k \in 1..Len(l) : l[k] \in FormItems}

\* the tokens one argument is written as
RenderItem(it) ==
       (IF it.pre.k = "nil" THEN <<>>
        ELSE IF it.pre.k = "label" THEN <<Ident(it.pre.id), ColonTok>>
        ELSE <<it.pre, EqTok>>)
    \o (IF it.val.k = "nil" THEN <<>>
        ELSE IF it.val.k = "mac"
        THEN <<Ident(it.val.id), BangTok, OpenTok, StrLit(it.val.str), CloseTok>>
        ELSE <<it.val>>)
    \o (IF it.sep THEN <<CommaTok>> ELSE <<>>)

RECURSIVE Render(_)
Render(l) == IF l = <<>> THEN <<>> ELSE RenderItem(Head(l)) \o Render(Tail(l))

\* ------------------------------------------------------- parse_macro_opts
\* parser.token when the parser is at index p; the stream ends with Eof
TokAt(p) == IF p <= Len(toks) THEN toks[p] ELSE EofTok

\* line 24: parser.look_ahead(1, |t| t == &token::Eq)
EqAhead == TokAt(pos + 1).k = "eq"

\* lines 24-38 when they do not return: the name, and where the value starts.
\* (parser.expect(&token::Eq) at line 29 cannot fail: look_ahead saw the Eq.)
ArgName == IF EqAhead THEN Some(TokAt(pos).id) ELSE None
ValPos == IF EqAhead THEN pos + 2 ELSE pos

\* AfterArg changed to return at the first rejected visit
AfterArg_ReturnOnReject(p, good, d) ==
    IF TokAt(p).k = "eof" \/ ~good
    THEN [pos |-> p, result |-> IF good THEN "true" ELSE "false", diags |-> d]
    ELSE IF TokAt(p).k = "comma"
    THEN [pos |-> p + 1, result |-> "running", diags |-> d]
    ELSE [pos |-> p, result |-> "false", diags |-> d + 1]

\* AfterArg changed to report a missing comma and go on with the next argument
AfterArg_GoOn(p, good, d) ==
    IF TokAt(p).k = "eof"
    THEN [pos |-> p, result |-> IF good THEN "true" ELSE "false", diags |-> d]
    ELSE IF TokAt(p).k = "comma"
    THEN [pos |-> p + 1, result |-> "running", diags |-> d]
    ELSE [pos |-> p, result |-> "running", diags |-> d + 1]

\* AfterArg changed to return false on a missing comma without a diagnostic
AfterArg_Silent(p, good, d) ==
    IF TokAt(p).k = "eof"
    THEN [pos |-> p, result |-> IF good THEN "true" ELSE "false", diags |-> d]
    ELSE IF TokAt(p).k = "comma"
    THEN [pos |-> p + 1, result |-> "running", diags |-> d]
    ELSE [pos |-> p, result |-> "false", diags |-> d]

\* AfterArg changed to leave the parser on the value it has just read when a
\* comma follows
AfterArg_StepBack(p, good, d) ==
    IF TokAt(p).k = "eof"
    THEN [pos |-> p, result |-> IF good THEN "true" ELSE "false", diags |-> d]
    ELSE IF TokAt(p).k = "comma"
    THEN [pos |-> p - 1, result |-> "running", diags |-> d]
    ELSE [pos |-> p, result |-> "false", diags |-> d + 1]

\* lines 92-99, with parser.token at index p: return args_good at Eof, eat a
\* comma and loop, or report anything else and return false
AfterArg(p, good, d) ==
    IF TokAt(p).k = "eof"
    THEN [pos |-> p, result |-> IF good THEN "true" ELSE "false", diags |-> d]
    ELSE IF TokAt(p).k = "comma"
    THEN [pos |-> p + 1, result |-> "running", diags |-> d]
    ELSE [pos |-> p, result |-> "false", diags |-> d + 1]

\* ArgsGood changed to keep only the last visit's outcome
ArgsGood_LastOnly(good, ret) == ret

\* lines 53-56 and 79-82: args_good after a visit that returned ret
ArgsGood(good, ret) == IF ret THEN good ELSE FALSE

\* lines 53-56 and 79-82 followed by lines 92-99: the visit r of the value
\* token tok by method has been made
Dispatched(method, tok, r) ==
    LET good == ArgsGood(args_good, r.ret)
        d == IF r.ret THEN diags ELSE diags + 1
        after == AfterArg(ValPos + 1, good, d)
    IN  /\ visits' = Append(visits, [method |-> method, name |-> ArgName, val |-> tok,
                                     ret |-> r.ret, before |-> options,
                                     after |-> r.options, seen |-> seen_named])
        /\ options' = r.options
        /\ seen_named' = r.seen_named
        /\ IF r.panic
           THEN /\ result' = "panic"
                /\ UNCHANGED <<pos, args_good, diags>>
           ELSE /\ args_good' = good
                /\ pos' = after.pos
                /\ result' = after.result
                /\ diags' = after.diags

\* bgmacro.rs:18-27: bindgen_macro is in its call of parse_macro_opts and has
\* handed nothing to Bindings::generate
MacroInit == [pc |-> "parse", paths |-> 0, handed |-> DefaultOptions]

ParseInit ==
    /\ toks = Render(input)
    /\ pos = 1
    /\ options = DefaultOptions
    /\ seen_named = FALSE
    /\ args_good = TRUE
    /\ result = "running"
    /\ diags = 0
    /\ visits = <<>>
    /\ iters = 0

Init ==
    /\ input \in ItemLists(MaxArgs)
    /\ ParseInit
    /\ macro = MacroInit
    /\ s = <<>>
    /\ scan = ScanInit

\* lines 24-36: an `=` follows a token that is not an identifier
ArgBadName ==
    /\ result = "running"
    /\ EqAhead /\ TokAt(pos).k # "ident"
    /\ diags' = diags + 1
    /\ result' = "false"
    /\ UNCHANGED <<pos, options, seen_named, args_good, visits>>
    /\ iters' = iters + 1
    /\ UNCHANGED <<input, toks, s, scan, macro>>

\* lines 42-57, 92-99: the value is an identifier token
ArgIdent ==
    /\ result = "running"
    /\ ~(EqAhead /\ TokAt(pos).k # "ident")
    /\ TokAt(ValPos).k = "ident"
    /\ LET tok == TokAt(ValPos)
           m == IdentMethod(tok.id)
       IN  Dispatched(m, tok, Visit(m, options, seen_named, ArgName, tok))
    /\ iters' = iters + 1
    /\ UNCHANGED <<input, toks, s, scan, macro>>

\* lines 59-73, 79-83, 92-99: the value is a string or integer literal
ArgLit ==
    /\ result = "running"
    /\ ~(EqAhead /\ TokAt(pos).k # "ident")
    /\ LitMethod(TokAt(ValPos).k) # ""
    /\ LET tok == TokAt(ValPos)
           m == LitMethod(tok.k)
       IN  Dispatched(m, tok, Visit(m, options, seen_named, ArgName, tok))
    /\ iters' = iters + 1
    /\ UNCHANGED <<input, toks, s, scan, macro>>

\* lines 74-77: the value is a literal of another kind
ArgLitOther ==
    /\ result = "running"
    /\ ~(EqAhead /\ TokAt(pos).k # "ident")
    /\ TokAt(ValPos).k = "float"
    /\ diags' = diags + 1
    /\ result' = "false"
    /\ pos' = ValPos + 1
    /\ UNCHANGED <<options, seen_named, args_good, visits>>
    /\ iters' = iters + 1
    /\ UNCHANGED <<input, toks, s, scan, macro>>

\* lines 84-87: the value is an expression that is not a literal
ArgNotLit ==
    /\ result = "running"
    /\ ~(EqAhead /\ TokAt(pos).k # "ident")
    /\ TokAt(ValPos).k = "block"
    /\ diags' = diags + 1
    /\ result' = "false"
    /\ pos' = ValPos + 1
    /\ UNCHANGED <<options, seen_named, args_good, visits>>
    /\ iters' = iters + 1
    /\ UNCHANGED <<input, toks, s, scan, macro>>

\* line 60: no expression starts at the value position (a comma, an `=` or
\* the end of the stream): parse_expr() is Err and unwrap() panics
ArgNoExpr ==
    /\ result = "running"
    /\ ~(EqAhead /\ TokAt(pos).k # "ident")
    /\ TokAt(ValPos).k \in {"eof", "comma", "eq"}
    /\ result' = "panic"
    /\ pos' = ValPos
    /\ UNCHANGED <<options, seen_named, args_good, diags, visits>>
    /\ iters' = iters + 1
    /\ UNCHANGED <<input, toks, s, scan, macro>>

Next == ArgBadName \/ ArgIdent \/ ArgLit \/ ArgLitOther \/ ArgNotLit \/ ArgNoExpr

Spec == Init /\ [][Next]_vars

\* ------------------------------ SpecMacro: bindgen_macro around the parser
\* bgmacro.rs:33, 34, 40, 41: the strings pushed onto clang_args
IdirafterStr == <<"-", "i", "d", "i", "r", "a", "f", "t", "e", "r">>
SearchDirStr == <<"/", "i", "n", "c">>
DashIStr == <<"-", "I">>
ModDirStr == <<"s", "r", "c">>

\* bgmacro.rs:33-34: one turn of the loop over clang.c_search_paths
PushSearchPath(opts) ==
    [opts EXCEPT !.clang_args = (@ \o <<IdirafterStr>>) \o <<SearchDirStr>>]

\* PushModDir changed to put -I and the directory in front of the arguments
PushModDir_Front(opts) ==
    [opts EXCEPT !.clang_args = <<DashIStr, ModDirStr>> \o @]

\* bgmacro.rs:38-41: -I and the directory of the invoking file
PushModDir(opts) ==
    [opts EXCEPT !.clang_args = (@ \o <<DashIStr>>) \o <<ModDirStr>>]

\* bgmacro.rs:27-29: parse_macro_opts returned false
DummyResult ==
    /\ macro.pc = "parse" /\ result = "false"
    /\ macro' = [macro EXCEPT !.pc = "dummy"]
    /\ UNCHANGED <<s, scan, input, toks, pos, options, seen_named, args_good,
                   result, diags, visits, iters>>

\* bgmacro.rs:31: Clang::find(None) is Some, with n search paths
ClangFound ==
    /\ macro.pc = "parse" /\ result = "true"
    /\ \E n \in 0..MaxPaths : macro' = [macro EXCEPT !.pc = "paths", !.paths = n]
    /\ UNCHANGED <<s, scan, input, toks, pos, options, seen_named, args_good,
                   result, diags, visits, iters>>

\* bgmacro.rs:31: Clang::find(None) is None and expect() panics
ClangNotFound ==
    /\ macro.pc = "parse" /\ result = "true"
    /\ macro' = [macro EXCEPT !.pc = "panic"]
    /\ UNCHANGED <<s, scan, input, toks, pos, options, seen_named, args_good,
                   result, diags, visits, iters>>

\* bgmacro.rs:32-35: for dir in clang.c_search_paths
SearchPath ==
    /\ macro.pc = "paths" /\ macro.paths > 0
    /\ options' = PushSearchPath(options)
    /\ macro' = [macro EXCEPT !.paths = @ - 1]
    /\ UNCHANGED <<s, scan, input, toks, pos, seen_named, args_good, result,
                   diags, visits, iters>>

\* bgmacro.rs:37-41: the loop is over; add the directory of the header
ModDir ==
    /\ macro.pc = "paths" /\ macro.paths = 0
    /\ options' = PushModDir(options)
    /\ macro' = [macro EXCEPT !.pc = "generate"]
    /\ UNCHANGED <<s, scan, input, toks, pos, seen_named, args_good, result,
                   diags, visits, iters>>

\* bgmacro.rs:53: Bindings::generate(&options, ..)
Generate ==
    /\ macro.pc = "generate"
    /\ macro' = [macro EXCEPT !.pc = "generated", !.handed = options]
    /\ UNCHANGED <<s, scan, input, toks, pos, options, seen_named, args_good,
                   result, diags, visits, iters>>

NextMacro ==
    \/ Next
    \/ DummyResult \/ ClangFound \/ ClangNotFound \/ SearchPath \/ ModDir
    \/ Generate

SpecMacro == Init /\ [][NextMacro]_vars

\* ------------------- SpecForms: the parser on the two further written forms
InitForms ==
    /\ input \in FormLists(MaxArgs)
    /\ ParseInit
    /\ macro = MacroInit
    /\ s = <<>>
    /\ scan = ScanInit

SpecForms == InitForms /\ [][Next]_vars

\* --------------------------------------------- SpecSplit: the splitter alone
InitSplit ==
    /\ s \in StringsUpTo(MaxLen)
    /\ scan = ScanInit
    /\ input = <<>>
    /\ ParseInit
    /\ macro = MacroInit

\* one iteration of the for loop at lines 124-192
SplitIter ==
    /\ scan.pc = "loop"
    /\ ~ScanDone(Trim(s), scan)
    /\ scan' = ScanStep(Trim(s), scan)
    /\ UNCHANGED <<s, input, toks, pos, options, seen_named, args_good, result,
                   diags, visits, iters, macro>>

\* line 193: return parts
SplitReturn ==
    /\ scan.pc = "loop"
    /\ ScanDone(Trim(s), scan)
    /\ scan' = [scan EXCEPT !.pc = "done"]
    /\ UNCHANGED <<s, input, toks, pos, options, seen_named, args_good, result,
                   diags, visits, iters, macro>>

NextSplit == SplitIter \/ SplitReturn

SpecSplit == InitSplit /\ [][NextSplit]_vars

\* ------------------------------------------------- the written arguments
\* What input says was written, read off the argument list and not off the
\* parser's run.
ItemName(it) == IF it.pre.k = "ident" THEN Some(it.pre.id) ELSE None
BadPrefix(it) == it.pre.k \notin {"nil", "ident"}
NonLiteral(it) == it.val.k \in {"float", "block"}
NoValue(it) == it.val.k = "nil"
WellFormed(it) == ~BadPrefix(it) /\ ~NonLiteral(it) /\ ~NoValue(it)
MissingSep(k) == k < Len(input) /\ ~input[k].sep
TrailingComma == Len(input) >= 1 /\ input[Len(input)].sep
IsBoolItem(it) == it.val.k = "ident" /\ it.val.id \in {"true", "false"}
IsStrItem(it) == it.val.k = "str"

\* every argument is well formed and separated from the next by a comma
NoSyntaxError ==
    /\ Len(input) >= 1
    /\ \A k \in 1..Len(input) : WellFormed(input[k]) /\ ~MissingSep(k)

\* the list is Arg (, Arg)* exactly
GrammarOK == NoSyntaxError /\ ~TrailingComma

Done == result # "running"
AllAccepted == \A k \in 1..Len(visits) : visits[k].ret
MaxOf(S) == CHOOSE x \in S : \A y \in S : y <= x

\* the value of the last `n=true|false` written, d when there is none
LastBool(n, d) ==
    LET W == {k \in 1..Len(input) :
                 ItemName(input[k]) = Some(n) /\ IsBoolItem(input[k])}
    IN  IF W = {} THEN d ELSE input[MaxOf(W)].val.id = "true"

\* the value of the last `n="..."` written, d when there is none
LastStr(n, d) ==
    LET W == {k \in 1..Len(input) :
                 ItemName(input[k]) = Some(n) /\ IsStrItem(input[k])}
    IN  IF W = {} THEN d ELSE input[MaxOf(W)].val.str

\* the values of the `n="..."` arguments, in the order written
StrsOf(n) ==
    LET sel == SelectSeq(input,
                   LAMBDA it : ItemName(it) = Some(n) /\ IsStrItem(it))
    IN  [k \in 1..Len(sel) |-> sel[k].val.str]

\* C1: a semantic error does not stop iteration: when the argument list has
\* no syntax error, every argument is dispatched to the binder, in order, and
\* every accepted argument's effect is in the Configuration, also after
\* rejected arguments (the last builtins / allow_unknown_types / enum_type
\* written wins, every match value is in match_pat).
C1_SemanticErrorContinues ==
    (Done /\ NoSyntaxError) =>
        /\ Len(visits) = Len(input)
        /\ \A k \in 1..Len(visits) :
              /\ visits[k].name = ItemName(input[k])
              /\ visits[k].val = input[k].val
        /\ options.builtins = LastBool("builtins", TRUE)
        /\ options.fail_on_unknown_type = ~LastBool("allow_unknown_types", TRUE)
        /\ options.override_enum_ty = LastStr("enum_type", <<>>)
        /\ options.match_pat = StrsOf("match")

\* C1 witness: `bogus=1, builtins=false`: the first visit was rejected, the
\* second was made and builtins is false.
C1_Witness ==
    /\ Done /\ NoSyntaxError
    /\ Len(visits) = 2
    /\ visits[1].name = Some("bogus") /\ visits[1].method = "visit_uint"
    /\ ~visits[1].ret
    /\ visits[2].name = Some("builtins") /\ visits[2].ret
    /\ options.builtins = FALSE

\* the first argument that is a syntax error of one of the three kinds: a
\* token that is no identifier before `=`, a value that is no string, bool
\* or integer literal, or no comma between it and the next argument
SyntaxErrorAt(k) ==
    /\ k \in 1..Len(input)
    /\ BadPrefix(input[k]) \/ NonLiteral(input[k]) \/ MissingSep(k)
    /\ ~NoValue(input[k])
    /\ \A j \in 1..(k - 1) : WellFormed(input[j]) /\ ~MissingSep(j)

\* C2: a syntax error aborts the parse at once with the result failure: the
\* arguments written after it are never dispatched (the argument in error
\* itself is dispatched only when the error is the missing comma after it)
\* and the Configuration stays as the last visit before the error left it.
C2_SyntaxErrorAborts ==
    \A k \in 1..Len(input) :
        (Done /\ SyntaxErrorAt(k)) =>
            /\ result = "false"
            /\ Len(visits) = (IF WellFormed(input[k]) THEN k ELSE k - 1)
            /\ options = (IF visits = <<>> THEN DefaultOptions
                          ELSE visits[Len(visits)].after)
            /\ pos <= Len(Render(SubSeq(input, 1, k))) + 1

\* C2 witness: `builtins=1.0, builtins=false`: aborted at the first argument,
\* whose successor would have been accepted.
C2_Witness ==
    /\ Done /\ SyntaxErrorAt(1) /\ Len(input) = 2
    /\ NonLiteral(input[1])
    /\ ItemName(input[2]) = Some("builtins") /\ IsBoolItem(input[2])
    /\ input[2].val.id = "false"
    /\ visits = <<>> /\ options.builtins = TRUE /\ result = "false"

\* C3: the call returns success if and only if the list is Arg (, Arg)*
\* without a syntax error and every visit made returned success; one rejected
\* visit makes the result a failure whatever follows.
C3_SuccessIff ==
    Done =>
        /\ (result = "true") <=> (GrammarOK /\ AllAccepted)
        /\ (GrammarOK /\ ~AllAccepted) => result = "false"

\* C3 witness: a list of two arguments whose first visit was rejected and
\* whose second was accepted: the result is failure.
C3_Witness ==
    /\ Done /\ GrammarOK /\ Len(visits) = 2
    /\ ~visits[1].ret /\ visits[2].ret
    /\ result = "false"

\* C4: an unnamed string argument is bound as clang_args (its split tokens
\* appended, visit accepted) if and only if no named argument was written
\* before it; otherwise the visit is rejected and clang_args is unchanged.
C4_PositionalGate ==
    \A k \in 1..Len(visits) :
        (visits[k].method = "visit_str" /\ visits[k].name = None) =>
            LET v == visits[k]
                early == \A j \in 1..(k - 1) : ItemName(input[j]) = None
            IN  /\ v.ret <=> early
                /\ early => v.after =
                       VisitClangArgs(v.before, v.seen, v.val.str).options
                /\ early => v.after.clang_args =
                       v.before.clang_args \o parse_process_args(v.val.str).parts
                /\ ~early => v.after.clang_args = v.before.clang_args

\* C4 witness: `builtins=false, "x y"`: the string after the named argument
\* was rejected and clang_args is still empty.
C4_Witness ==
    /\ Done /\ Len(visits) = 2
    /\ visits[1].name = Some("builtins") /\ visits[1].ret
    /\ visits[2].method = "visit_str" /\ visits[2].name = None
    /\ ~visits[2].ret
    /\ options.clang_args = <<>> /\ result = "false"

\* C5: an argument list followed by one comma before the terminator stops
\* normally, with the result the list has without the comma: success when
\* every visit was accepted, failure otherwise; no abort, no attempt to
\* parse a further argument.
C5_TrailingCommaAccepted ==
    (Done /\ NoSyntaxError /\ TrailingComma) =>
        /\ Len(visits) = Len(input)
        /\ result = (IF AllAccepted THEN "true" ELSE "false")

IsPrefix(a, b) == Len(a) <= Len(b) /\ SubSeq(b, 1, Len(a)) = a

\* C6: a rejected visit, of any value kind and name, leaves every field of
\* the Configuration as it was; a rejected link value appends nothing.
C6_RejectedVisitNoEffect ==
    \A k \in 1..Len(visits) :
        ~visits[k].ret =>
            /\ visits[k].after = visits[k].before
            /\ k = Len(visits) => options = visits[k].before

\* C6 witness: `link="m", link="b=m"`: the second link value names an
\* unknown kind, was rejected, and links still holds the first entry only.
C6_Witness ==
    /\ Len(visits) = 2
    /\ visits[1].name = Some("link") /\ visits[1].ret
    /\ visits[2].name = Some("link") /\ visits[2].method = "visit_str"
    /\ ~visits[2].ret
    /\ options.links = << << <<"m">>, "Dynamic" >> >>

\* the `=` signs of a string
EqSigns(v) == {j \in 1..Len(v) : v[j] = "="}
KindOf(w) ==
    CASE w = <<"s", "t", "a", "t", "i", "c">> -> "Static"
      [] w = <<"d", "y", "n", "a", "m", "i", "c">> -> "Dynamic"
      [] w = <<"f", "r", "a", "m", "e", "w", "o", "r", "k">> -> "Framework"
      [] OTHER -> "unknown"

\* C7: a string v bound with the name link: without `=`, (v, Dynamic) is
\* appended to links; kind=name with kind static, dynamic or framework
\* appends (name, Static | Dynamic | Framework); every other value is
\* rejected; a success appends exactly one entry.
C7_LinkSpecifier ==
    \A k \in 1..Len(visits) :
        (visits[k].method = "visit_str" /\ visits[k].name = Some("link")) =>
            LET v == visits[k].val.str
                b == visits[k].before.links
                a == visits[k].after.links
                e == MaxOf(EqSigns(v))
                kind == KindOf(SubSeq(v, 1, e - 1))
            IN  /\ Cardinality(EqSigns(v)) = 0 =>
                      visits[k].ret /\ a = Append(b, <<v, "Dynamic">>)
                /\ (Cardinality(EqSigns(v)) = 1 /\ kind # "unknown") =>
                      /\ visits[k].ret
                      /\ a = Append(b, <<SubSeq(v, e + 1, Len(v)), kind>>)
                /\ (Cardinality(EqSigns(v)) = 1 /\ kind = "unknown") =>
                      ~visits[k].ret
                /\ Cardinality(EqSigns(v)) > 1 => ~visits[k].ret
                /\ visits[k].ret => Len(a) = Len(b) + 1

\* C7 witness: `link="m", link="static=m"`: links is [(m, Dynamic),
\* (m, Static)].
C7_Witness ==
    /\ Len(visits) = 2
    /\ visits[2].method = "visit_str" /\ visits[2].name = Some("link")
    /\ visits[2].ret
    /\ options.links = << << <<"m">>, "Dynamic" >>, << <<"m">>, "Static" >> >>

\* C8: a boolean b named allow_unknown_types sets fail_on_unknown_type to
\* not b, named builtins sets builtins to b, and changes nothing else; with
\* another name or none it is rejected; an identifier written true or false
\* is dispatched as a boolean, never as an identifier.
C8_Booleans ==
    \A k \in 1..Len(visits) :
        LET v == visits[k]
            b == input[k].val.id = "true"
        IN  /\ IsBoolItem(input[k]) <=> v.method = "visit_bool"
            /\ v.method = "visit_bool" =>
                  /\ v.name = Some("allow_unknown_types") =>
                        /\ v.ret
                        /\ v.after = [v.before EXCEPT !.fail_on_unknown_type = ~b]
                  /\ v.name = Some("builtins") =>
                        v.ret /\ v.after = [v.before EXCEPT !.builtins = b]
                  /\ v.name \notin {Some("allow_unknown_types"), Some("builtins")}
                        => ~v.ret

\* C8 witness: `builtins=false, allow_unknown_types=true`: builtins is false
\* and fail_on_unknown_type is false, the lists are empty.
C8_Witness ==
    /\ Len(visits) = 2
    /\ visits[1].name = Some("builtins") /\ input[1].val.id = "false"
    /\ visits[2].name = Some("allow_unknown_types") /\ input[2].val.id = "true"
    /\ options = [DefaultOptions EXCEPT !.builtins = FALSE,
                                        !.fail_on_unknown_type = FALSE]

\* the strings of the accepted visit_str calls bound to the option n, in the
\* order the calls were made
BoundStrs(n) ==
    LET sel == SelectSeq(visits,
                   LAMBDA v : /\ v.method = "visit_str" /\ v.ret
                              /\ \/ v.name = Some(n)
                                 \/ n = "clang_args" /\ v.name = None)
    IN  [k \in 1..Len(sel) |-> sel[k].val.str]

\* the words of a string without quotes or backslashes, in the order written
Words(v) == SelectSeq(Split(v, " "), LAMBDA w : w # <<>>)

\* C9: clang_args, match_pat and links only grow at their end: each visit
\* leaves the earlier value of the three lists a prefix of the later one, and
\* the elements are in the order the arguments were written: match_pat is
\* the match values in order, clang_args the words of the first clang_args
\* value followed by those of the next.
C9_ListsAppendOnly ==
    /\ \A k \in 1..Len(visits) :
          /\ IsPrefix(visits[k].before.clang_args, visits[k].after.clang_args)
          /\ IsPrefix(visits[k].before.match_pat, visits[k].after.match_pat)
          /\ IsPrefix(visits[k].before.links, visits[k].after.links)
          /\ IsPrefix(visits[k].after.clang_args, options.clang_args)
          /\ IsPrefix(visits[k].after.match_pat, options.match_pat)
          /\ IsPrefix(visits[k].after.links, options.links)
    /\ options.match_pat = BoundStrs("match")
    /\ options.clang_args =
          Concat([k \in 1..Len(BoundStrs("clang_args")) |->
                     Words(BoundStrs("clang_args")[k])])

\* C9 witness: `match="x y", match="m"` gave match_pat [x y, m], or
\* `"x y", clang_args="m"` gave clang_args [x, y, m].
C9_Witness ==
    /\ Len(visits) = 2 /\ visits[1].ret /\ visits[2].ret
    /\ \/ options.match_pat = << <<"x", " ", "y">>, <<"m">> >>
       \/ options.clang_args = << <<"x">>, <<"y">>, <<"m">> >>

\* C10: parse_process_args never returns an empty token: every element of
\* the returned list is non-empty, whatever the input string.
C10_NoEmptyToken ==
    scan.pc = "done" => \A k \in 1..Len(scan.parts) : scan.parts[k] # <<>>

\* C15: seen_named is monotone within one parse: false at the start, true
\* from the first visit that carries a name on, whether that visit was
\* accepted or rejected and whatever its value kind, never false again; a
\* visit without a name leaves it as it was.
C15_SeenNamedMonotone ==
    /\ seen_named = (\E k \in 1..Len(visits) : visits[k].name # None)
    /\ \A k \in 1..Len(visits) :
          visits[k].seen = (\E j \in 1..(k - 1) : visits[j].name # None)

\* C15 witness: `bogus=1i64, true`: the named integer was rejected, the
\* unnamed visit after it found and left seen_named true.
C15_Witness ==
    /\ Len(visits) = 2
    /\ visits[1].method = "visit_int" /\ visits[1].name # None /\ ~visits[1].ret
    /\ ~visits[1].seen
    /\ visits[2].name = None /\ visits[2].seen
    /\ seen_named

Rejected == Cardinality({k \in 1..Len(visits) : ~visits[k].ret})

\* C16: the diagnostics emitted are the rejected visits plus one when the
\* parse was ended by a syntax error; a run that returned failure emitted at
\* least one.
C16_DiagnosticsMatchErrors ==
    Done =>
        /\ diags = Rejected
                   + (IF \E k \in 1..Len(input) : SyntaxErrorAt(k) THEN 1 ELSE 0)
        /\ result = "false" => diags >= 1

\* C16 witness: `bogus=foo "m"`: one rejected visit, then the missing comma:
\* two diagnostics.
C16_Witness ==
    /\ Done /\ result = "false"
    /\ Len(visits) = 1 /\ ~visits[1].ret
    /\ SyntaxErrorAt(1) /\ MissingSep(1)
    /\ diags = 2

\* ------------------------------------------ the splitter's rules, read off
\* The tokens rules 2-4 of the splitter give for str, read from character k
\* on in quote state q with the token cur under way: an escape pair stands
\* for its second character, a quote toggles unless inside the other kind of
\* quote, an unquoted space ends the token, everything else is kept.
\* the Configuration as parse_macro_opts left it
ParsedOptions ==
    IF visits = <<>> THEN DefaultOptions ELSE visits[Len(visits)].after

\* what bindgen_macro handed over after the arguments bound by the parse
AddedArgs ==
    SubSeq(macro.handed.clang_args, Len(ParsedOptions.clang_args) + 1,
           Len(macro.handed.clang_args))

\* C19 as written: after parse_macro_opts has returned the Configuration is
\* what the parse produced, and so is the value handed to Bindings::generate.
C19_HandedAsParsed ==
    /\ Done => options = ParsedOptions
    /\ macro.pc = "generated" => macro.handed = ParsedOptions

\* C19: once parse_macro_opts has returned, bindgen_macro changes no field of
\* the Configuration but clang_args, and clang_args only at its end: the
\* value handed to Bindings::generate has every other field as the parse
\* produced it, and its clang_args is the tokens bound from the arguments
\* followed by -idirafter and a directory for each search path of clang,
\* then -I and the directory of the invoking file.
C19_OnlyClangArgsGrow ==
    /\ Done =>
          /\ [options EXCEPT !.clang_args = ParsedOptions.clang_args]
                = ParsedOptions
          /\ IsPrefix(ParsedOptions.clang_args, options.clang_args)
    /\ macro.pc = "generated" =>
          /\ result = "true"
          /\ macro.handed = options
          /\ Len(AddedArgs) >= 2 /\ Len(AddedArgs) % 2 = 0
          /\ \A j \in 1..Len(AddedArgs) :
                AddedArgs[j] =
                    IF j = Len(AddedArgs) THEN ModDirStr
                    ELSE IF j = Len(AddedArgs) - 1 THEN DashIStr
                    ELSE IF j % 2 = 1 THEN IdirafterStr ELSE SearchDirStr

\* C19 witness: the parse bound clang_args and match_pat or builtins, clang
\* had one search path, and generate received the bound tokens followed by
\* the four added ones.
C19_Witness ==
    /\ macro.pc = "generated"
    /\ Len(visits) = 2
    /\ ParsedOptions.clang_args # <<>>
    /\ Len(AddedArgs) = 4
    /\ macro.handed.clang_args # ParsedOptions.clang_args

\* the arguments before the k-th are well formed and followed by a comma
CleanBefore(k) ==
    \A j \in 1..(k - 1) : WellFormed(input[j]) /\ input[j].sep

\* C17: a value that is a macro invocation (`clang_args=concat!("x y")`) is
\* expanded and, when it reduces to a string literal, dispatched to the
\* binder by visit_str as that string under the argument's name, not as a
\* bare identifier.
C17_MacroValueExpanded ==
    Done =>
        \A k \in 1..Len(input) :
            (input[k].val.k = "mac" /\ input[k].pre.k \in {"nil", "ident"}
                /\ CleanBefore(k)) =>
                /\ Len(visits) >= k
                /\ visits[k].method = "visit_str"
                /\ visits[k].name = ItemName(input[k])
                /\ visits[k].val = StrLit(input[k].val.str)

\* C20: an argument written `name:value` is a named argument: it is
\* dispatched under that name and bound as `name=value` is (clang_args:"x y"
\* appends x and y to clang_args), without a syntax or semantic error.
C20_ColonNamesArgument ==
    Done =>
        \A k \in 1..Len(input) :
            (input[k].pre.k = "label" /\ CleanBefore(k)) =>
                /\ Len(visits) >= k
                /\ visits[k].name = Some(input[k].pre.id)
                /\ visits[k].val = input[k].val
                /\ visits[k].ret
                /\ visits[k].after =
                      Visit(visits[k].method, visits[k].before, visits[k].seen,
                            Some(input[k].pre.id), input[k].val).options
                /\ (k = Len(input) /\ ~input[k].sep /\ AllAccepted) =>
                      result = "true" /\ diags = 0

\* C18 as written: the loop runs at most as many times as there are tokens
\* in the stream.  `bindgen!()` has no token and the loop body is entered once
\* (it panics at line 60).
C18_AtMostTokens == iters <= Len(toks)

\* the token at the head of an argument is one the loop body has a branch for
CanIterate ==
    \/ EqAhead /\ TokAt(pos).k # "ident"
    \/ TokAt(ValPos).k \in {"ident", "float", "block", "eof", "comma", "eq"}
    \/ LitMethod(TokAt(ValPos).k) # ""

\* C18: parse_macro_opts terminates on every finite token stream: while it
\* has not returned or panicked an iteration of its loop can run, an iteration
\* either moves the parser forward by at least one token or leaves the loop
\* (return or panic), the parser never passes the terminator, and the loop
\* body is entered at most as many times as there are tokens, once when there
\* are none.
C18_Terminates ==
    /\ [][/\ iters' = iters + 1
          /\ pos' > pos \/ result' # "running"]_vars
    /\ [](/\ result = "running" => CanIterate
          /\ pos <= Len(toks) + 1
          /\ iters <= (IF toks = <<>> THEN 1 ELSE Len(toks)))

\* C18 witness: two arguments, two iterations, the second one returned true
\* at the terminator.
C18_Witness ==
    /\ result = "true" /\ Len(input) = 2 /\ iters = 2
    /\ Len(toks) >= 3 /\ pos = Len(toks) + 1

RECURSIVE RuleTokens(_, _, _, _)
RuleTokens(str, k, q, cur) ==
    IF k > Len(str) THEN (IF cur = <<>> THEN <<>> ELSE <<cur>>)
    ELSE LET c == str[k]
         IN  IF /\ c = "\\" /\ k < Len(str)
                /\ str[k + 1] \in {"\"", "'", "\\", " "}
             THEN RuleTokens(str, k + 2, q, Append(cur, str[k + 1]))
             ELSE IF c = "\"" /\ q = "InNone"
             THEN RuleTokens(str, k + 1, "InDoubleQuotes", cur)
             ELSE IF c = "\"" /\ q = "InDoubleQuotes"
             THEN RuleTokens(str, k + 1, "InNone", cur)
             ELSE IF c = "'" /\ q = "InNone"
             THEN RuleTokens(str, k + 1, "InSingleQuotes", cur)
             ELSE IF c = "'" /\ q = "InSingleQuotes"
             THEN RuleTokens(str, k + 1, "InNone", cur)
             ELSE IF c = " " /\ q = "InNone"
             THEN (IF cur = <<>> THEN <<>> ELSE <<cur>>)
                  \o RuleTokens(str, k + 1, q, <<>>)
             ELSE RuleTokens(str, k + 1, q, Append(cur, c))

\* a token list without the spaces inside its tokens and without the tokens
\* that hold nothing else (trimming and empty tokens are left to C10)
Squeeze(tokens) ==
    LET bare == [k \in 1..Len(tokens) |->
                    SelectSeq(tokens[k], LAMBDA c : c # " ")]
    IN  SelectSeq(bare, LAMBDA w : w # <<>>)

HasChar(str, c) == \E k \in 1..Len(str) : str[k] = c

\* the quote state the rules give after the character c met in state q, for
\* a string without backslashes
RuleQuote(q, c) ==
    IF c = "\"" /\ q = "InNone" THEN "InDoubleQuotes"
    ELSE IF c = "\"" /\ q = "InDoubleQuotes" THEN "InNone"
    ELSE IF c = "'" /\ q = "InNone" THEN "InSingleQuotes"
    ELSE IF c = "'" /\ q = "InSingleQuotes" THEN "InNone"
    ELSE q

\* how many characters c of str, from index k on and starting in quote state
\* q, are met while the quote state is inq
RECURSIVE MetIn(_, _, _, _, _)
MetIn(str, k, q, c, inq) ==
    IF k > Len(str) THEN 0
    ELSE (IF str[k] = c /\ q = inq THEN 1 ELSE 0)
         + MetIn(str, k + 1, RuleQuote(q, str[k]), c, inq)

Occurrences(str, c) == Cardinality({k \in 1..Len(str) : str[k] = c})

\* C11: a space ends a token only in the unquoted state, a quote toggles
\* only outside the other kind of quote, the quotes that toggle are not in
\* the output and the quotes met inside the other kind are: for an input
\* without backslashes there are no more tokens than unquoted spaces plus
\* one, and the output holds exactly the double quotes met inside single
\* quotes and the single quotes met inside double quotes;
\* `a "b c"` gives [a, b c] and `a '"b"' c` gives [a, "b", c].
C11_QuotesAndSpaces ==
    /\ (scan.pc = "done" /\ ~HasChar(s, "\\")) =>
           LET out == Concat(scan.parts)
               str == Trim(s)
           IN  /\ Len(scan.parts) <= MetIn(str, 1, "InNone", " ", "InNone") + 1
               /\ Occurrences(out, "\"")
                     = MetIn(str, 1, "InNone", "\"", "InSingleQuotes")
               /\ Occurrences(out, "'")
                     = MetIn(str, 1, "InNone", "'", "InDoubleQuotes")
    /\ parse_process_args(<<"a", " ", "\"", "b", " ", "c", "\"">>).parts
         = << <<"a">>, <<"b", " ", "c">> >>
    /\ parse_process_args(<<"a", " ", "'", "\"", "b", "\"", "'", " ", "c">>).parts
         = << <<"a">>, <<"\"", "b", "\"">>, <<"c">> >>

\* C12: backslash-doublequote, backslash-singlequote, backslash-backslash
\* and backslash-space each stand for their second character, which neither
\* toggles a quote nor ends a token and is in the output once in place of
\* the pair, also when escape pairs are adjacent: for every input of
\* one-byte characters the tokens returned are those of the rules (up to
\* spaces); `a b\ c` gives [a, b c].
C12_EscapePairs ==
    /\ (scan.pc = "done" /\ ~HasChar(s, "E")) =>
           Squeeze(scan.parts) = Squeeze(RuleTokens(Trim(s), 1, "InNone", <<>>))
    /\ parse_process_args(<<"a", " ", "b", "\\", " ", "c">>).parts
         = << <<"a">>, <<"b", " ", "c">> >>

\* the number of backslashes the string ends with
RECURSIVE TrailingBackslashes(_)
TrailingBackslashes(str) ==
    IF str # <<>> /\ str[Len(str)] = "\\"
    THEN 1 + TrailingBackslashes(SubSeq(str, 1, Len(str) - 1)) ELSE 0

\* C13: a backslash that is the last character of the trimmed input does not
\* escape the synthetic trailing space: for every input ending in a single
\* unescaped backslash the final token is emitted and ends with that
\* backslash.
C13_TrailingBackslash ==
    (scan.pc = "done" /\ TrailingBackslashes(Trim(s)) % 2 = 1) =>
        /\ scan.parts # <<>>
        /\ LET final == scan.parts[Len(scan.parts)]
           IN  final # <<>> /\ final[Len(final)] = "\\"

\* C14: parse_process_args never fails, whatever the input, and an input
\* that ends inside a quoted region has the region closed at its end: the
\* text since the last boundary is emitted at the synthetic trailing space.
C14_NeverErrors ==
    /\ scan.pc # "panic"
    /\ (scan.pc = "done" /\ scan.quote_state # "InNone") =>
           scan.positions = <<Len(Trim(s)) + 1>>

\* the unit tests of test_parse_process_args (lines 276-285)
UnitTests ==
    /\ parse_process_args(<<"a", " ", "a", " ", "a">>).parts
         = << <<"a">>, <<"a">>, <<"a">> >>
    /\ parse_process_args(<<"a", " ", "\"", "a", "\"", " ", "a">>).parts
         = << <<"a">>, <<"a">>, <<"a">> >>
    /\ parse_process_args(<<"a", " ", "'", "a", "'", " ", "a">>).parts
         = << <<"a">>, <<"a">>, <<"a">> >>
    /\ parse_process_args(<<"a", " ", "\"", "a", " ", "a", "\"">>).parts
         = << <<"a">>, <<"a", " ", "a">> >>
    /\ parse_process_args(<<"a", " ", "'", "\"", "a", "\"", "'", " ", "a">>).parts
         = << <<"a">>, <<"\"", "a", "\"">>, <<"a">> >>
    /\ parse_process_args(<<"a", " ", "a", "\\", " ", "a">>).parts
         = << <<"a">>, <<"a", " ", "a">> >>
    /\ parse_process_args(<<"a", " ", "a", " ", "a", "\\">>).parts
         = << <<"a">>, <<"a">>, <<"a", "\\">> >>
====
